---- MODULE Spec2Model ----
(***************************************************************************)
(* Seal5 flow: the settings store (merge_dicts, YAMLSettings) and the      *)
(* workspace lifecycle (Seal5Flow) of src/seal5/flow.py.                   *)
(***************************************************************************)
EXTENDS Integers, Sequences, FiniteSets, TLC

VARIABLES
    fs,                 \* the directory tree below the workspace root
    DEFAULT_SETTINGS,   \* the module-level dict of flow.py (one per process)
    flow,               \* the Seal5Flow object of the running process
    parserCalls,        \* invocations of the parser adapter, in order
    cloneCalls,         \* invocations of the clone adapter, in order
    procCalls,          \* invocations of cmake, make and llvm-lit, in order
    errorLog,           \* what logger.error was given, in order
    op,                 \* the operation that ran last, its arguments and outcome
    pre,                \* the program state when that operation was called
    nops,               \* number of operations run so far
    mA, mB,             \* merge unit: the base and the incoming settings tree
    mOverwrite,         \* merge unit: the overwrite flag
    mResult,            \* merge unit: outcome of YAMLSettings.merge
    mpc,                \* merge unit: "start" or "done"
    rt                  \* round-trip unit: a tree, the file saved, the tree loaded

wsvars == <<fs, DEFAULT_SETTINGS, flow, parserCalls, cloneCalls, procCalls, errorLog,
            op, pre, nops>>
mvars == <<mA, mB, mOverwrite, mResult, mpc>>
rtvars == <<rt>>
vars == <<fs, DEFAULT_SETTINGS, flow, parserCalls, cloneCalls, procCalls, errorLog,
          op, pre, nops, mA, mB, mOverwrite, mResult, mpc, rt>>

(***************************************************************************)
(* Python values held in a settings tree.  A dict is an ordered sequence   *)
(* of <<key, value>> items (insertion order, unique keys).                 *)
(***************************************************************************)
PyStr(s) == [kind |-> "str", val |-> s]
PyInt(i) == [kind |-> "int", val |-> i]
PyBool(b) == [kind |-> "bool", val |-> b]
PyList(xs) == [kind |-> "list", val |-> xs]
PyDict(items) == [kind |-> "map", val |-> items]

IsDict(v) == v.kind = "map"

KeysOf(m) == {m.val[i][1] : i \in 1..Len(m.val)}

HasKey(m, k) == \E i \in 1..Len(m.val) : m.val[i][1] = k

IndexOf(m, k) == CHOOSE i \in 1..Len(m.val) : m.val[i][1] = k

Get(m, k) == m.val[IndexOf(m, k)][2]

\* a[key] = value: an existing key keeps its position, a new key goes last
SetItem(m, k, v) ==
    IF HasKey(m, k)
    THEN [m EXCEPT !.val[IndexOf(m, k)] = <<k, v>>]
    ELSE [m EXCEPT !.val = Append(@, <<k, v>>)]

\* Python's == on the values above: bool is an int (True == 1), a str or a
\* list equals only its own kind, dicts compare without regard to order.
RECURSIVE PyEq(_, _)
PyEq(x, y) ==
    IF x.kind = "map" /\ y.kind = "map"
    THEN /\ KeysOf(x) = KeysOf(y)
         /\ \A k \in KeysOf(x) : PyEq(Get(x, k), Get(y, k))
    ELSE IF x.kind \in {"int", "bool"} /\ y.kind \in {"int", "bool"}
    THEN LET n(v) == IF v.kind = "int" THEN v.val ELSE IF v.val THEN 1 ELSE 0
         IN n(x) = n(y)
    ELSE x.kind = y.kind /\ x.val = y.val

\* ".".join(path)
RECURSIVE Dotted(_)
Dotted(path) ==
    IF Len(path) = 0 THEN ""
    ELSE IF Len(path) = 1 THEN path[1]
    ELSE path[1] \o "." \o Dotted(Tail(path))

ConflictMsg(path) == "Conflict at " \o Dotted(path)

\* mutant: a section both dicts have is taken from b instead of merged into
RECURSIVE merge_from_shallow(_, _, _, _)
merge_from_shallow(a, b, path, i) ==
    IF i > Len(b.val) THEN [ok |-> TRUE, a |-> a, msg |-> ""]
    ELSE LET key == b.val[i][1]
             bv == b.val[i][2]
         IN IF HasKey(a, key) /\ ~(IsDict(Get(a, key)) /\ IsDict(bv))
            THEN IF ~PyEq(Get(a, key), bv)
                 THEN [ok |-> FALSE, a |-> a, msg |-> ConflictMsg(path \o <<key>>)]
                 ELSE merge_from_shallow(a, b, path, i + 1)
            ELSE merge_from_shallow(SetItem(a, key, bv), b, path, i + 1)

\* mutant: the recursion does not extend path by the section's key
RECURSIVE merge_from_short_path(_, _, _, _)
merge_from_short_path(a, b, path, i) ==
    IF i > Len(b.val) THEN [ok |-> TRUE, a |-> a, msg |-> ""]
    ELSE LET key == b.val[i][1]
             bv == b.val[i][2]
         IN IF HasKey(a, key)
            THEN LET av == Get(a, key)
                 IN IF IsDict(av) /\ IsDict(bv)
                    THEN LET r == merge_from_short_path(av, bv, path, 1)
                         IN IF r.ok
                            THEN merge_from_short_path(SetItem(a, key, r.a), b, path, i + 1)
                            ELSE [ok |-> FALSE, a |-> SetItem(a, key, r.a), msg |-> r.msg]
                    ELSE IF ~PyEq(av, bv)
                    THEN [ok |-> FALSE, a |-> a, msg |-> ConflictMsg(path \o <<key>>)]
                    ELSE merge_from_short_path(a, b, path, i + 1)
            ELSE merge_from_short_path(SetItem(a, key, bv), b, path, i + 1)

(***************************************************************************)
(* merge_dicts(a, b, path): walks b's keys in order and mutates a in       *)
(* place; raises on the first conflict, leaving in a what it had already   *)
(* written.  The result records the exception (ok = FALSE, msg) and the    *)
(* dict a as the call left it.                                             *)
(***************************************************************************)
RECURSIVE merge_from(_, _, _, _)
merge_from(a, b, path, i) ==
    IF i > Len(b.val) THEN [ok |-> TRUE, a |-> a, msg |-> ""]
    ELSE LET key == b.val[i][1]
             bv == b.val[i][2]
         IN IF HasKey(a, key)
            THEN LET av == Get(a, key)
                 IN IF IsDict(av) /\ IsDict(bv)
                    THEN LET r == merge_from(av, bv, path \o <<key>>, 1)
                         IN IF r.ok
                            THEN merge_from(SetItem(a, key, r.a), b, path, i + 1)
                            ELSE [ok |-> FALSE, a |-> SetItem(a, key, r.a), msg |-> r.msg]
                    ELSE IF ~PyEq(av, bv)
                    THEN [ok |-> FALSE, a |-> a, msg |-> ConflictMsg(path \o <<key>>)]
                    ELSE merge_from(a, b, path, i + 1)
            ELSE merge_from(SetItem(a, key, bv), b, path, i + 1)

merge_dicts(a, b, path) == merge_from(a, b, path, 1)

\* dict.update(other)
RECURSIVE update_from(_, _, _)
update_from(a, b, i) ==
    IF i > Len(b.val) THEN a
    ELSE update_from(SetItem(a, b.val[i][1], b.val[i][2]), b, i + 1)

dict_update(a, b) == update_from(a, b, 1)

\* mutant: overwrite is ignored
merge_always_deep(data, other, overwrite) == merge_from(data, other, <<>>, 1)

\* YAMLSettings.merge(other, overwrite): data is self.data after the call
merge(data, other, overwrite) ==
    IF overwrite
    THEN [ok |-> TRUE, a |-> dict_update(data, other), msg |-> ""]
    ELSE merge_dicts(data, other, <<>>)

(***************************************************************************)
(* Merge unit: settings trees over two keys, nested two levels deep.       *)
(***************************************************************************)
Leaves == {PyInt(1), PyBool(TRUE), PyStr("x")}

CanonicalOrders == {<<>>, <<"a">>, <<"b">>, <<"a", "b">>}

AllOrders == CanonicalOrders \cup {<<"b", "a">>}

MapsOver(orders, T) ==
    {PyDict([i \in 1..Len(ks) |-> <<ks[i], f[i]>>]) : ks \in orders, f \in [1..2 -> T]}

SectionLeaves == {PyInt(1), PyStr("x")}

Sections == MapsOver(CanonicalOrders, SectionLeaves)

TreesA == MapsOver(CanonicalOrders, Leaves \cup Sections)

TreesB == MapsOver(AllOrders, Leaves \cup Sections)

(***************************************************************************)
(* The settings document.  yaml.dump writes every mapping with its keys    *)
(* sorted; yaml.safe_load reads the mappings in document order.            *)
(***************************************************************************)
SortedKeys ==
    <<"CMAKE_BUILD_TYPE", "LLVM_BUILD_TOOLS", "LLVM_ENABLE_ASSERTIONS",
      "LLVM_ENABLE_PROJECTS", "LLVM_OPTIMIZED_TABLEGEN", "LLVM_TARGETS_TO_BUILD",
      "a", "all", "author", "b", "base_commit", "configs", "console", "debug",
      "extensions", "feature", "file", "groups", "inputs", "level", "limit",
      "llvm", "logging", "mail", "options", "passes", "patch", "paths",
      "release", "release_assertions", "riscv", "rotate", "state", "test",
      "transform", "version", "xcv">>

PyNone == [kind |-> "none", val |-> "None"]

\* the position of a key in sorted order
KeyRank == [k \in {SortedKeys[i] : i \in 1..Len(SortedKeys)} |->
               CHOOSE i \in 1..Len(SortedKeys) : SortedKeys[i] = k]

\* the words a plain YAML scalar is read as a bool, a null or an int by
TrueWords == {"true", "True", "TRUE", "yes", "Yes", "YES", "on", "On", "ON"}

FalseWords == {"false", "False", "FALSE", "no", "No", "NO", "off", "Off", "OFF"}

NullWords == {"", "~", "null", "Null", "NULL"}

ModelInts == {0, 1, 1000}

IntWords == {ToString(i) : i \in ModelInts}

\* the implicit resolver: the tag of a plain scalar
Resolve(text) ==
    IF text \in TrueWords \cup FalseWords THEN "bool"
    ELSE IF text \in IntWords THEN "int"
    ELSE IF text \in NullWords THEN "null"
    ELSE "str"

\* a scalar node of a document: its text, written plain or in quotes
Scalar(style, text) == [kind |-> "scalar", style |-> style, val |-> text]

\* mutant: a str is always written plain
represent_str_plain(s) == Scalar("plain", s)

\* the representer on a str: quoted when the plain text would be read as
\* something else than a str, or would start with an indicator
represent_str(s) ==
    IF Resolve(s) # "str" \/ s = "*" THEN Scalar("quoted", s) ELSE Scalar("plain", s)

\* the representer on a leaf
represent(v) ==
    IF v.kind = "bool" THEN Scalar("plain", IF v.val THEN "true" ELSE "false")
    ELSE IF v.kind = "int" THEN Scalar("plain", ToString(v.val))
    ELSE IF v.kind = "str" THEN represent_str(v.val)
    ELSE IF v.kind = "list"
    THEN [kind |-> "seq", val |-> [i \in 1..Len(v.val) |-> represent_str(v.val[i])]]
    ELSE Scalar("plain", "null")

\* a document: a mapping node keeps kind "map" and its items in text order
RECURSIVE dump(_, _)
dump(data, sort_keys) ==
    IF ~IsDict(data) THEN represent(data)
    ELSE LET items == [i \in 1..Len(data.val) |->
                          <<data.val[i][1], dump(data.val[i][2], sort_keys)>>]
         IN PyDict(IF sort_keys
                   THEN SortSeq(items, LAMBDA x, y : KeyRank[x[1]] < KeyRank[y[1]])
                   ELSE items)

\* yaml.dump(data): sort_keys defaults to True
to_yaml(data) == dump(data, TRUE)

\* the constructor on a scalar node
construct(node) ==
    IF node.style = "quoted" \/ Resolve(node.val) = "str" THEN PyStr(node.val)
    ELSE IF Resolve(node.val) = "bool" THEN PyBool(node.val \in TrueWords)
    ELSE IF Resolve(node.val) = "int"
    THEN PyInt(CHOOSE i \in ModelInts : ToString(i) = node.val)
    ELSE PyNone

\* yaml.safe_load(text): the mappings in document order
RECURSIVE from_yaml(_)
from_yaml(text) ==
    IF text.kind = "scalar" THEN construct(text)
    ELSE IF text.kind = "seq"
    THEN LET items == [i \in 1..Len(text.val) |-> construct(text.val[i])]
         IN IF \A i \in 1..Len(items) : items[i].kind = "str"
            THEN PyList([i \in 1..Len(items) |-> items[i].val])
            ELSE [kind |-> "mixed list", val |-> items]
    ELSE PyDict([i \in 1..Len(text.val) |-> <<text.val[i][1], from_yaml(text.val[i][2])>>])

LlvmOptions(build_type, assertions) ==
    PyDict(<< <<"CMAKE_BUILD_TYPE", PyStr(build_type)>>,
              <<"LLVM_BUILD_TOOLS", PyBool(TRUE)>>,
              <<"LLVM_ENABLE_ASSERTIONS", PyBool(assertions)>>,
              <<"LLVM_OPTIMIZED_TABLEGEN", PyBool(TRUE)>>,
              <<"LLVM_ENABLE_PROJECTS", PyList(<<"clang", "lld">>)>>,
              <<"LLVM_TARGETS_TO_BUILD", PyList(<<"X86", "RISCV">>)>> >>)

LlvmConfig(build_type, assertions) ==
    PyDict(<< <<"options", LlvmOptions(build_type, assertions)>> >>)

\* the dict literal bound to DEFAULT_SETTINGS when flow.py is imported
DefaultSettingsLiteral ==
    PyDict(<<
      <<"logging", PyDict(<<
          <<"console", PyDict(<< <<"level", PyStr("INFO")>> >>)>>,
          <<"file", PyDict(<< <<"level", PyStr("DEBUG")>>,
                              <<"rotate", PyBool(FALSE)>>,
                              <<"limit", PyInt(1000)>> >>)>> >>)>>,
      <<"patch", PyDict(<< <<"author", PyStr("Seal5")>>,
                           <<"mail", PyStr("example@example.com")>> >>)>>,
      <<"transform", PyDict(<< <<"passes", PyStr("*")>> >>)>>,
      <<"test", PyDict(<< <<"paths", PyList(<<"MC/RISCV", "CodeGen/RISCV">>)>> >>)>>,
      <<"llvm", PyDict(<<
          <<"state", PyDict(<< <<"version", PyStr("auto")>>,
                               <<"base_commit", PyStr("unknown")>> >>)>>,
          <<"configs", PyDict(<<
              <<"release", LlvmConfig("Release", FALSE)>>,
              <<"release_assertions", LlvmConfig("Release", TRUE)>>,
              <<"debug", LlvmConfig("Debug", TRUE)>> >>)>> >>)>>,
      <<"inputs", PyList(<<>>)>>,
      <<"extensions", PyDict(<<>>)>>,
      <<"groups", PyDict(<< <<"all", PyStr("*")>> >>)>> >>)

(***************************************************************************)
(* Round-trip unit: a settings tree is saved to a file and loaded back.    *)
(***************************************************************************)
YamlLeaves ==
    {PyBool(TRUE), PyBool(FALSE), PyInt(1), PyInt(1000), PyStr("x"), PyStr("1"),
     PyStr("true"), PyStr(""), PyList(<<>>), PyList(<<"x", "no">>)}

YamlSectionLeaves == {PyBool(FALSE), PyStr("1"), PyList(<<"x", "no">>)}

YamlSections == MapsOver(AllOrders, YamlSectionLeaves)

\* nested mappings whose leaves are booleans, integers, strings or lists of
\* strings, with the keys in either order
YamlTrees == MapsOver(AllOrders, YamlLeaves \cup YamlSections)

NoRoundTrip == [pc |-> "idle", tree |-> PyNone, file |-> PyNone, loaded |-> PyNone]

\* YAMLSettings(data=tree).to_yaml_file(path)
SaveFile ==
    /\ rt.pc = "start"
    /\ rt' = [rt EXCEPT !.pc = "saved", !.file = to_yaml(rt.tree)]
    /\ UNCHANGED wsvars
    /\ UNCHANGED mvars

\* YAMLSettings.from_yaml_file(path).data
LoadFile ==
    /\ rt.pc = "saved"
    /\ rt' = [rt EXCEPT !.pc = "loaded", !.loaded = from_yaml(rt.file)]
    /\ UNCHANGED wsvars
    /\ UNCHANGED mvars

NextYaml == SaveFile \/ LoadFile

(***************************************************************************)
(* Save unit: to_yaml_file step by step, and the process stopping in it.   *)
(* rt.loaded is the tree the file held before, rt.tree the one to save.    *)
(***************************************************************************)
SaveTrees == MapsOver(CanonicalOrders, YamlSectionLeaves)

\* the first k items of a document; short of the whole it is a cut-off text
Prefix(doc, k) ==
    IF k = Len(doc.val) /\ k > 0 THEN doc
    ELSE [kind |-> "truncated", val |-> SubSeq(doc.val, 1, k)]

\* open(path, "w"): the file is there and empty
OpenForWrite ==
    /\ rt.pc = "saving"
    /\ rt' = [rt EXCEPT !.pc = "open", !.file = Prefix(to_yaml(rt.tree), 0)]
    /\ UNCHANGED wsvars
    /\ UNCHANGED mvars

\* file.write(text): as much of the buffered text as has gone to the file
WriteText ==
    /\ rt.pc = "open"
    /\ \E k \in 0..Len(to_yaml(rt.tree).val) :
          rt' = [rt EXCEPT !.pc = "written", !.file = Prefix(to_yaml(rt.tree), k)]
    /\ UNCHANGED wsvars
    /\ UNCHANGED mvars

\* leaving the with block closes the file, which flushes the rest
CloseFile ==
    /\ rt.pc = "written"
    /\ rt' = [rt EXCEPT !.pc = "closed", !.file = to_yaml(rt.tree)]
    /\ UNCHANGED wsvars
    /\ UNCHANGED mvars

\* the process stops before the save has ended
Crash ==
    /\ rt.pc \in {"saving", "open", "written"}
    /\ rt' = [rt EXCEPT !.pc = "crashed"]
    /\ UNCHANGED wsvars
    /\ UNCHANGED mvars

NextSave == OpenForWrite \/ WriteText \/ CloseFile \/ Crash

(***************************************************************************)
(* The world a Seal5Flow method runs in: the workspace directory tree, the *)
(* module global, the flow object and the adapters' call logs.             *)
(***************************************************************************)
Layout == {"deps", "models", "logs", "build", "install", "temp", "inputs", "gen"}

World == [fs |-> fs, DEFAULT_SETTINGS |-> DEFAULT_SETTINGS, flow |-> flow,
          parserCalls |-> parserCalls, cloneCalls |-> cloneCalls,
          procCalls |-> procCalls, errorLog |-> errorLog]

\* fs.root: directory is a directory; fs.meta: meta_dir is a directory;
\* fs.subdirs: the layout directories below meta_dir; fs.settings_file: the
\* document in settings.yml, or PyNone; fs.inputs, fs.models: the file
\* names in inputs_dir and the parsed models in models_dir; fs.build: the
\* directories below build_dir; fs.built: those of them that hold bin/llvm-lit
EmptyFs(rootExists) ==
    [root |-> rootExists, meta |-> FALSE, subdirs |-> {}, settings_file |-> PyNone,
     inputs |-> {}, models |-> {}, build |-> {}, built |-> {}]

\* flow.settings: "None", "DEFAULT_SETTINGS" (self.settings.data is the
\* module global itself) or "loaded" (a dict of its own, held in flow.data)
NoFlow == [constructed |-> FALSE, state |-> "UNKNOWN", settings |-> "None", data |-> PyNone]

settings_data(w) ==
    IF w.flow.settings = "DEFAULT_SETTINGS" THEN w.DEFAULT_SETTINGS ELSE w.flow.data

\* a write through self.settings.data reaches the object it refers to
set_settings_data(w, d) ==
    IF w.flow.settings = "DEFAULT_SETTINGS"
    THEN [w EXCEPT !.DEFAULT_SETTINGS = d]
    ELSE [w EXCEPT !.flow.data = d]

\* mutant: the settings file is left as it is
to_yaml_file_skipped(w) == w

\* YAMLSettings.to_yaml_file(self.settings_file)
to_yaml_file(w) == [w EXCEPT !.fs.settings_file = to_yaml(settings_data(w))]

Return(w) == [w |-> w, exc |-> "none"]
Raise(w, e) == [w |-> w, exc |-> e]

\* Seal5Flow.__init__
Seal5Flow_init(w) ==
    IF w.fs.settings_file # PyNone
    THEN [w EXCEPT !.flow = [constructed |-> TRUE, state |-> "UNKNOWN",
                             settings |-> "loaded",
                             data |-> from_yaml(w.fs.settings_file)]]
    ELSE [w EXCEPT !.flow = [constructed |-> TRUE, state |-> "UNKNOWN",
                             settings |-> "None", data |-> PyNone]]

\* the yes/no prompt: the operator's answer when interactive, else the default
\* (flow.py calls ask_user without binding the name, and ends the refused
\* call through logging.error and sys.exit(1), which it does not bind either:
\* the refused call ends by an uncaught exception, exit status 1 all the same)
ask_user(default, interactive, answer) == IF interactive THEN answer ELSE default

\* mutant: a failed clone or checkout goes unnoticed
clone_llvm_repo_unchecked(w, clone_url, ref, outcome) ==
    [w |-> [w EXCEPT !.cloneCalls = Append(@, [url |-> clone_url, ref |-> ref]),
                     !.fs.root = (outcome # "clone_failed")],
     exc |-> "none"]

\* clone_llvm_repo: outcome "ok", "clone_failed" (nothing is left at dest) or
\* "checkout_failed" (the clone is at dest, the checkout of ref raised)
clone_llvm_repo(w, clone_url, ref, outcome) ==
    LET called == [w EXCEPT !.cloneCalls = Append(@, [url |-> clone_url, ref |-> ref])]
    IN IF outcome = "ok" THEN Return([called EXCEPT !.fs.root = TRUE])
       ELSE IF outcome = "checkout_failed" /\ ref # "None"
       THEN Raise([called EXCEPT !.fs.root = TRUE], "GitCommandError")
       ELSE Raise(called, "GitCommandError")

\* create_seal5_directories(meta_dir, [...]) after meta_dir.mkdir(exist_ok=True)
create_seal5_directories(w, directories) ==
    [w EXCEPT !.fs.meta = TRUE, !.fs.subdirs = @ \cup directories]

\* mutant: a missing root is always cloned
clone_refused_never(w, interactive, clone, answer) == FALSE

\* mutant: an existing meta_dir is always overwritten
overwrite_refused_never(w, interactive, force, answer) == FALSE

\* initialize, first check: the root is missing and no clone was asked for
\* or agreed to
clone_refused(w, interactive, clone, answer) ==
    ~w.fs.root /\ clone = FALSE /\ ~ask_user(FALSE, interactive, answer)

\* initialize, second check: meta_dir exists and overwriting it was neither
\* forced nor agreed to
overwrite_refused(w, interactive, force, answer) ==
    w.fs.meta /\ force = FALSE /\ ~ask_user(FALSE, interactive, answer)

\* Seal5Flow.initialize; env holds what the outside answers during the call
initialize(w, interactive, clone, clone_url, clone_ref, force, env) ==
    LET cloned ==
            IF clone_refused(w, interactive, clone, env.answer)
            THEN Raise(w, "SystemExit(1)")
            ELSE IF ~w.fs.root
            THEN clone_llvm_repo(w, clone_url, clone_ref, env.clone)
            ELSE Return(w)
        w1 == cloned.w
    IN IF cloned.exc # "none" THEN cloned
       ELSE IF overwrite_refused(w1, interactive, force, env.answer)
       THEN Raise(w1, "SystemExit(1)")
       ELSE IF ~w1.fs.root THEN Raise(w1, "FileNotFoundError")
       ELSE LET w2 == create_seal5_directories(w1, Layout)
                w3 == [w2 EXCEPT !.flow.settings = "DEFAULT_SETTINGS", !.flow.data = PyNone]
            IN Return(to_yaml_file(w3))

(***************************************************************************)
(* Files handed to load.  A file has the name and suffix of its path and,  *)
(* for a YAML fragment, the document in it, written in the order shown.    *)
(***************************************************************************)
CdslA == [name |-> "a.core_desc", suffix |-> ".core_desc", yaml |-> PyNone]

CdslB == [name |-> "B.CORE_DESC", suffix |-> ".CORE_DESC", yaml |-> PyNone]

\* adds groups.riscv, agrees on groups.all
CfgGroups ==
    [name |-> "groups.yml", suffix |-> ".yml",
     yaml |-> dump(PyDict(<< <<"groups", PyDict(<< <<"riscv", PyStr("xcv*")>>,
                                                  <<"all", PyStr("*")>> >>)>> >>),
                   FALSE)]

\* adds extensions.xcv, then disagrees on patch.author
CfgPatch ==
    [name |-> "patch.YAML", suffix |-> ".YAML",
     yaml |-> dump(PyDict(<< <<"extensions",
                               PyDict(<< <<"xcv", PyDict(<< <<"feature", PyStr("XCV")>> >>)>> >>)>>,
                             <<"patch", PyDict(<< <<"author", PyStr("Me")>> >>)>> >>),
                   FALSE)]

\* names an input of its own
CfgInputs ==
    [name |-> "inputs.yaml", suffix |-> ".yaml",
     yaml |-> dump(PyDict(<< <<"inputs", PyList(<<"ghost.core_desc">>)>> >>), FALSE)]

Notes == [name |-> "notes.txt", suffix |-> ".txt", yaml |-> PyNone]

CdslFiles == {CdslA, CdslB}

CfgFiles == {CfgGroups, CfgPatch, CfgInputs}

Files == CdslFiles \cup CfgFiles \cup {Notes}

\* str.lower() on the suffixes above
lower(ext) ==
    CASE ext = ".CORE_DESC" -> ".core_desc"
      [] ext = ".YAML" -> ".yaml"
      [] ext = ".YML" -> ".yml"
      [] OTHER -> ext

\* the path of a file given to load, and of its copy in inputs_dir
SourcePath(file) == <<"given", file.name>>
InputsPath(file) == <<"inputs_dir", file.name>>

\* mutant: the fragment is filed under inputs_dir as a model source is
load_cfg_copying(w, file, overwrite) ==
    IF w.flow.settings = "None" THEN [w |-> w, exc |-> "AttributeError"]
    ELSE LET r == merge(settings_data(w), from_yaml(file.yaml), overwrite)
             w1 == set_settings_data([w EXCEPT !.fs.inputs = @ \cup {file.name}], r.a)
         IN IF r.ok THEN [w |-> to_yaml_file(w1), exc |-> "none"]
            ELSE [w |-> w1, exc |-> r.msg]

\* Seal5Flow.load_cfg
load_cfg(w, file, overwrite) ==
    IF w.flow.settings = "None" THEN Raise(w, "AttributeError")
    ELSE LET new_settings == from_yaml(file.yaml)
             r == merge(settings_data(w), new_settings, overwrite)
             w1 == set_settings_data(w, r.a)
         IN IF r.ok THEN Return(to_yaml_file(w1)) ELSE Raise(w1, r.msg)

\* mutant: the parser is started twice
parse_coredsl_twice(w, file, out_dir, parserOk) ==
    LET call == [file |-> file, out_dir |-> out_dir]
        called == [w EXCEPT !.parserCalls = Append(Append(@, call), call)]
    IN IF parserOk
       THEN [w |-> [called EXCEPT !.fs.models = @ \cup {file[2]}], exc |-> "none"]
       ELSE [w |-> called, exc |-> "ExternalToolError"]

\* Seal5Flow.parse_coredsl: the parser adapter, which fails or writes the model
parse_coredsl(w, file, out_dir, parserOk) ==
    LET called == [w EXCEPT !.parserCalls = Append(@, [file |-> file, out_dir |-> out_dir])]
    IN IF parserOk
       THEN Return([called EXCEPT !.fs.models = @ \cup {file[2]}])
       ELSE Raise(called, "ExternalToolError")

\* Seal5Flow.load_cdsl
load_cdsl(w, file, overwrite, parserOk) ==
    IF file.name \in w.fs.inputs /\ ~overwrite
    THEN Raise(w, "RuntimeError: File " \o file.name \o " already loaded!")
    ELSE IF "inputs" \notin w.fs.subdirs THEN Raise(w, "FileNotFoundError")
    ELSE LET w1 == [w EXCEPT !.fs.inputs = @ \cup {file.name}]
         IN IF w1.flow.settings = "None" THEN Raise(w1, "AttributeError")
            ELSE IF Get(settings_data(w1), "inputs").kind # "list"
            THEN Raise(w1, "AttributeError")
            ELSE LET data == settings_data(w1)
                     inputs == Get(data, "inputs")
                     w2 == set_settings_data(w1,
                              SetItem(data, "inputs", PyList(Append(inputs.val, file.name))))
                     parsed == parse_coredsl(w2, SourcePath(file), "models_dir", parserOk)
                 IN IF parsed.exc # "none" THEN parsed
                    ELSE Return(to_yaml_file(parsed.w))

\* mutant: a file with an unsupported extension is passed over
RECURSIVE load_from_skipping(_, _, _, _, _)
load_from_skipping(w, files, overwrite, parserOk, i) ==
    IF i > Len(files) THEN [w |-> w, exc |-> "none"]
    ELSE LET file == files[i]
             r == IF lower(file.suffix) \in {".yml", ".yaml"} THEN load_cfg(w, file, overwrite)
                  ELSE IF lower(file.suffix) \in {".core_desc"}
                  THEN load_cdsl(w, file, overwrite, parserOk[i])
                  ELSE [w |-> w, exc |-> "none"]
         IN IF r.exc # "none" THEN r
            ELSE load_from_skipping(r.w, files, overwrite, parserOk, i + 1)

\* Seal5Flow.load: the files in order, until one raises
RECURSIVE load_from(_, _, _, _, _)
load_from(w, files, overwrite, parserOk, i) ==
    IF i > Len(files) THEN Return(w)
    ELSE LET file == files[i]
             ext == file.suffix
             r == IF lower(ext) \in {".yml", ".yaml"} THEN load_cfg(w, file, overwrite)
                  ELSE IF lower(ext) \in {".core_desc"}
                  THEN load_cdsl(w, file, overwrite, parserOk[i])
                  ELSE Raise(w, "RuntimeError: Unsupported input type: " \o ext)
         IN IF r.exc # "none" THEN r
            ELSE load_from(r.w, files, overwrite, parserOk, i + 1)

load(w, files, overwrite, parserOk) == load_from(w, files, overwrite, parserOk, 1)

\* Seal5Flow.clean: raises before it does anything
clean(w) == Raise(w, "NotImplementedError")

(***************************************************************************)
(* The build and test stages and the external processes they start.        *)
(***************************************************************************)
\* ";".join(value)
RECURSIVE Joined(_)
Joined(xs) ==
    IF Len(xs) = 0 THEN ""
    ELSE IF Len(xs) = 1 THEN xs[1]
    ELSE xs[1] \o ";" \o Joined(Tail(xs))

\* get_cmake_args, one option: f"-D{key}={value}"
cmake_arg(key, value) ==
    "-D" \o key \o "=" \o
        (IF value.kind = "bool" THEN (IF value.val THEN "ON" ELSE "OFF")
         ELSE IF value.kind = "list" THEN Joined(value.val)
         ELSE IF value.kind = "int" THEN ToString(value.val)
         ELSE value.val)

\* get_cmake_args(cfg): the options in the mapping's order
get_cmake_args(cfg) == [i \in 1..Len(cfg.val) |-> cmake_arg(cfg.val[i][1], cfg.val[i][2])]

\* utils.cmake, utils.make and utils.exec_getout start a process in cwd
Proc(tool, args, cwd) == [tool |-> tool, args |-> args, cwd |-> cwd]

\* build_llvm(src, dest, debug, use_ninja, verbose, cmake_options): dest is
\* build_dir / config; env says how far the external build gets
build_llvm(w, config, debug, cmake_options, env) ==
    LET cmake_args == get_cmake_args(cmake_options)
    IN IF "build" \notin w.fs.subdirs THEN Raise(w, "FileNotFoundError")
       ELSE LET w1 == [w EXCEPT !.fs.build = @ \cup {config}]
                w2 == [w1 EXCEPT !.procCalls = Append(@, Proc("cmake", cmake_args, config))]
                w3 == [w2 EXCEPT !.procCalls = Append(@, Proc("make", <<>>, config))]
            IN IF env = "cmake_failed" THEN Raise(w2, "ExternalToolError")
               ELSE IF env = "make_failed" THEN Raise(w3, "ExternalToolError")
               ELSE Return([w3 EXCEPT !.fs.built = @ \cup {config}])

\* mutant: an unknown config is built with no options
build_any_config(w, config, env) ==
    IF w.flow.settings = "None" THEN [w |-> w, exc |-> "AttributeError"]
    ELSE build_llvm(w, config, PyDict(<<>>), PyDict(<<>>), env)

\* Seal5Flow.build: the options of the config go to build_llvm as its third
\* positional parameter, debug; cmake_options keeps its default {}
build(w, config, env) ==
    IF w.flow.settings = "None" THEN Raise(w, "AttributeError")
    ELSE LET configs == Get(Get(settings_data(w), "llvm"), "configs")
         IN IF ~HasKey(configs, config)
            THEN Raise(w, "AssertionError: Invalid llvm config: " \o config)
            ELSE LET cmake_options == Get(Get(configs, config), "options")
                 IN build_llvm(w, config, cmake_options, PyDict(<<>>), env)

\* a result line of the test runner: "<status>: LLVM :: <id> (<n> of <m>)"
Line(status, id) == [status |-> status, id |-> id]

\* re.compile(r"FAIL: LLVM :: (.*) \(").findall(out): the pattern is looked
\* for anywhere in a line, so it is found in "FAIL: LLVM :: ..." and, by its
\* tail, in "XFAIL: LLVM :: ..."
RECURSIVE findall(_)
findall(out) ==
    IF Len(out) = 0 THEN <<>>
    ELSE (IF out[1].status \in {"FAIL", "XFAIL"} THEN <<out[1].id>> ELSE <<>>)
         \o findall(Tail(out))

\* test_llvm(base, build_dir, test_paths): one run of build_dir/bin/llvm-lit
\* per path, whose exit status is dropped; outs[i] is the output of run i
RECURSIVE test_llvm(_, _, _, _, _, _)
test_llvm(w, name, test_paths, outs, i, failing_tests) ==
    IF i > Len(test_paths) THEN [w |-> w, exc |-> "none", failing_tests |-> failing_tests]
    ELSE IF name \notin w.fs.built
    THEN [w |-> w, exc |-> "FileNotFoundError", failing_tests |-> failing_tests]
    ELSE test_llvm([w EXCEPT !.procCalls = Append(@, Proc("llvm-lit", <<test_paths[i]>>, name))],
                   name, test_paths, outs, i + 1, failing_tests \o findall(outs[i]))

\* Seal5Flow.test
test(w, debug, ignore_error, outs) ==
    IF w.flow.settings = "None" THEN Raise(w, "AttributeError")
    ELSE LET name == IF debug THEN "debug" ELSE "release"
             test_paths == Get(Get(settings_data(w), "test"), "paths").val
             ran == test_llvm(w, name, test_paths, outs, 1, <<>>)
             failing_tests == ran.failing_tests
         IN IF ran.exc # "none" THEN Raise(ran.w, ran.exc)
            ELSE IF Len(failing_tests) > 0
            THEN LET logged == [ran.w EXCEPT !.errorLog =
                                    Append(@, [count |-> Len(failing_tests),
                                               tests |-> failing_tests])]
                 IN IF ~ignore_error THEN Raise(logged, "RuntimeError: Tests failed!")
                    ELSE Return(logged)
            ELSE Return(ran.w)

(***************************************************************************)
(* Workspace lifecycle: one action per call of the flow API.               *)
(***************************************************************************)
MaxOps == 3

Urls == {"u", "v"}

Refs == {"r", "None"}

CloneOutcomes == {"ok", "clone_failed", "checkout_failed"}

NoOp ==
    [name |-> "none", after |-> "none", exc |-> "none", files |-> <<>>, overwrite |-> FALSE,
     parserOk |-> <<>>, interactive |-> FALSE, clone |-> FALSE, clone_url |-> "u",
     clone_ref |-> "r", force |-> FALSE, answer |-> FALSE, cloneOutcome |-> "ok",
     config |-> "release", buildOutcome |-> "ok", debug |-> FALSE,
     ignore_error |-> FALSE, outs |-> <<>>]

\* one call: r is what the method returned or raised and the world it left;
\* op.after names the call that ran before this one
Run(call, r) ==
    /\ nops' = nops + 1
    /\ pre' = World
    /\ \E res \in {r} :
          /\ op' = [call EXCEPT !.exc = res.exc, !.after = op.name]
          /\ fs' = res.w.fs
          /\ DEFAULT_SETTINGS' = res.w.DEFAULT_SETTINGS
          /\ flow' = res.w.flow
          /\ parserCalls' = res.w.parserCalls
          /\ cloneCalls' = res.w.cloneCalls
          /\ procCalls' = res.w.procCalls
          /\ errorLog' = res.w.errorLog
    /\ UNCHANGED mvars
    /\ UNCHANGED rtvars

Call(call, r) == nops < MaxOps /\ Run(call, r)

\* a new Python process imports flow.py, which builds the module global
\* anew, and constructs its Seal5Flow (as cli/init.py and cli/clean.py do)
NewProcess ==
    /\ flow.constructed
    /\ Call([NoOp EXCEPT !.name = "import"],
            Return(Seal5Flow_init([World EXCEPT
                       !.DEFAULT_SETTINGS = DefaultSettingsLiteral])))

\* seal5_flow = Seal5Flow(directory, name), once more in the same process
Construct ==
    /\ flow.constructed
    /\ Call([NoOp EXCEPT !.name = "__init__"], Return(Seal5Flow_init(World)))

Initialize ==
    /\ flow.constructed
    /\ \E interactive, clone, force, answer \in BOOLEAN :
       \E clone_url \in Urls, clone_ref \in Refs, outcome \in CloneOutcomes :
          /\ answer => interactive
          /\ (fs.root \/ ~(clone \/ answer)) =>
                (clone_url = "u" /\ clone_ref = "r" /\ outcome = "ok")
          /\ Call([NoOp EXCEPT !.name = "initialize", !.interactive = interactive,
                               !.clone = clone, !.clone_url = clone_url,
                               !.clone_ref = clone_ref, !.force = force,
                               !.answer = answer, !.cloneOutcome = outcome],
                  initialize(World, interactive, clone, clone_url, clone_ref, force,
                             [answer |-> answer, clone |-> outcome]))

\* seal5_flow.load([file], overwrite=overwrite)
Load ==
    /\ flow.constructed
    /\ \E file \in Files, overwrite, parserOk \in BOOLEAN :
          /\ file \notin CdslFiles => parserOk
          /\ Call([NoOp EXCEPT !.name = "load", !.files = <<file>>,
                               !.overwrite = overwrite, !.parserOk = <<parserOk>>],
                  load(World, <<file>>, overwrite, <<parserOk>>))

Clean ==
    /\ flow.constructed
    /\ Call([NoOp EXCEPT !.name = "clean"], clean(World))

InitialWorld(rootExists) ==
    Seal5Flow_init([fs |-> EmptyFs(rootExists), DEFAULT_SETTINGS |-> DefaultSettingsLiteral,
                    flow |-> NoFlow, parserCalls |-> <<>>, cloneCalls |-> <<>>,
                    procCalls |-> <<>>, errorLog |-> <<>>])

\* a process has imported flow.py and constructed its Seal5Flow on a root
\* that exists or not, with no metadata directory yet
Init ==
    /\ \E rootExists \in BOOLEAN :
          /\ fs = InitialWorld(rootExists).fs
          /\ flow = InitialWorld(rootExists).flow
          /\ pre = InitialWorld(rootExists)
    /\ DEFAULT_SETTINGS = DefaultSettingsLiteral
    /\ parserCalls = <<>>
    /\ cloneCalls = <<>>
    /\ procCalls = <<>>
    /\ errorLog = <<>>
    /\ op = NoOp
    /\ nops = 0
    /\ mA = PyDict(<<>>) /\ mB = PyDict(<<>>) /\ mOverwrite = FALSE
    /\ mResult = [ok |-> FALSE, a |-> PyDict(<<>>), msg |-> "not run"]
    /\ mpc = "start"
    /\ rt = NoRoundTrip

Next == NewProcess \/ Construct \/ Initialize \/ Load \/ Clean

Spec == Init /\ [][Next]_vars

(***************************************************************************)
(* Stage unit: build and test on a workspace as the lifecycle leaves it.   *)
(***************************************************************************)
MaxStageOps == 1

Configs == {"release", "debug", "nonexistent"}

BuildOutcomes == {"ok", "cmake_failed", "make_failed"}

\* what llvm-lit may print for one suite path
RunnerOutputs ==
    {<<>>,
     <<Line("PASS", "p")>>,
     <<Line("FAIL", "b")>>,
     <<Line("FAIL", "a"), Line("PASS", "p"), Line("FAIL", "b")>>,
     <<Line("XFAIL", "x"), Line("PASS", "p")>>}

\* seal5_flow.build(config=config)
Build ==
    /\ nops < MaxStageOps
    /\ \E config \in Configs, outcome \in BuildOutcomes :
          Run([NoOp EXCEPT !.name = "build", !.config = config, !.buildOutcome = outcome],
              build(World, config, outcome))

\* seal5_flow.test(debug=debug, ignore_error=ignore_error)
Test ==
    /\ nops < MaxStageOps
    /\ \E debug, ignore_error \in BOOLEAN, outs \in [1..2 -> RunnerOutputs] :
          Run([NoOp EXCEPT !.name = "test", !.debug = debug,
                           !.ignore_error = ignore_error, !.outs = outs],
              test(World, debug, ignore_error, outs))

\* seal5_flow.load([file], overwrite=overwrite), as the first stage
LoadStage ==
    /\ nops < MaxStageOps
    /\ \E file \in Files, overwrite, parserOk \in BOOLEAN :
          /\ file \notin CdslFiles => parserOk
          /\ Run([NoOp EXCEPT !.name = "load", !.files = <<file>>,
                              !.overwrite = overwrite, !.parserOk = <<parserOk>>],
                 load(World, <<file>>, overwrite, <<parserOk>>))

\* the workspace after initialize, in the process that ran it
Initialized ==
    initialize(InitialWorld(TRUE), FALSE, FALSE, "u", "r", FALSE,
               [answer |-> FALSE, clone |-> "ok"]).w

\* the same workspace with a Seal5Flow constructed on it afterwards
Reopened == Seal5Flow_init(Initialized)

\* and after successful builds
BuiltRelease == build(Reopened, "release", "ok").w

BuiltBoth == build(BuiltRelease, "debug", "ok").w

StageWorlds == {InitialWorld(TRUE), Initialized, Reopened, BuiltRelease, BuiltBoth}

InitStage ==
    /\ \E w \in StageWorlds :
          /\ fs = w.fs
          /\ DEFAULT_SETTINGS = w.DEFAULT_SETTINGS
          /\ flow = w.flow
          /\ parserCalls = w.parserCalls
          /\ cloneCalls = w.cloneCalls
          /\ procCalls = w.procCalls
          /\ errorLog = w.errorLog
          /\ pre = w
    /\ op = NoOp
    /\ nops = 0
    /\ mA = PyDict(<<>>) /\ mB = PyDict(<<>>) /\ mOverwrite = FALSE
    /\ mResult = [ok |-> FALSE, a |-> PyDict(<<>>), msg |-> "not run"]
    /\ mpc = "start"
    /\ rt = NoRoundTrip

NextStage == Build \/ Test \/ LoadStage

SpecStage == InitStage /\ [][NextStage]_vars

(***************************************************************************)
(* Batch unit: one call of load with several files.                        *)
(***************************************************************************)
MaxBatch == 3

Batches == UNION {[1..n -> Files] : n \in 1..MaxBatch}

\* seal5_flow.load(files, overwrite=overwrite)
LoadBatch ==
    /\ nops = 0
    /\ \E files \in Batches, overwrite \in BOOLEAN :
       \E parserOk \in [1..Len(files) -> BOOLEAN] :
          /\ \A i \in 1..Len(files) : files[i] \notin CdslFiles => parserOk[i]
          /\ Run([NoOp EXCEPT !.name = "load", !.files = files,
                              !.overwrite = overwrite, !.parserOk = parserOk],
                 load(World, files, overwrite, parserOk))

\* the initialized workspace with one model source loaded
Loaded == load(Reopened, <<CdslA>>, FALSE, <<TRUE>>).w

BatchWorlds == {InitialWorld(TRUE), Initialized, Reopened, Loaded}

InitBatch ==
    /\ \E w \in BatchWorlds :
          /\ fs = w.fs
          /\ DEFAULT_SETTINGS = w.DEFAULT_SETTINGS
          /\ flow = w.flow
          /\ parserCalls = w.parserCalls
          /\ cloneCalls = w.cloneCalls
          /\ procCalls = w.procCalls
          /\ errorLog = w.errorLog
          /\ pre = w
    /\ op = NoOp
    /\ nops = 0
    /\ mA = PyDict(<<>>) /\ mB = PyDict(<<>>) /\ mOverwrite = FALSE
    /\ mResult = [ok |-> FALSE, a |-> PyDict(<<>>), msg |-> "not run"]
    /\ mpc = "start"
    /\ rt = NoRoundTrip

NextBatch == LoadBatch

SpecBatch == InitBatch /\ [][NextBatch]_vars

NoResult == [ok |-> FALSE, a |-> PyDict(<<>>), msg |-> "not run"]

\* self.settings.merge(other, overwrite=False)
MergeNoOverwrite ==
    /\ mpc = "start"
    /\ ~mOverwrite
    /\ mResult' = merge(mA, mB, FALSE)
    /\ mpc' = "done"
    /\ UNCHANGED <<mA, mB, mOverwrite>>
    /\ UNCHANGED wsvars
    /\ UNCHANGED rtvars

\* self.settings.merge(other, overwrite=True)
MergeOverwrite ==
    /\ mpc = "start"
    /\ mOverwrite
    /\ mResult' = merge(mA, mB, TRUE)
    /\ mpc' = "done"
    /\ UNCHANGED <<mA, mB, mOverwrite>>
    /\ UNCHANGED wsvars
    /\ UNCHANGED rtvars

NextMerge == MergeNoOverwrite \/ MergeOverwrite

(***************************************************************************)
(* Vocabulary of the merge claims: key paths of a tree.                    *)
(***************************************************************************)
RECURSIVE PathsOf(_)
PathsOf(t) ==
    IF ~IsDict(t) THEN {}
    ELSE UNION {{<<k>>} \cup {<<k>> \o p : p \in PathsOf(Get(t, k))} : k \in KeysOf(t)}

RECURSIVE At(_, _)
At(t, p) == IF Len(p) = 0 THEN t ELSE At(Get(t, p[1]), Tail(p))

\* a key path both trees have, under which at least one holds a leaf
SharedLeafPaths(A, B) ==
    {p \in PathsOf(A) \cap PathsOf(B) : ~(IsDict(At(A, p)) /\ IsDict(At(B, p)))}

\* a shared key whose values differ and are not both nested mappings
ConflictPaths(A, B) ==
    {p \in SharedLeafPaths(A, B) : ~PyEq(At(A, p), At(B, p))}

\* C1: when A and B share no leaf key (no key path of both under which
\* either holds a leaf), merge(A, B, overwrite=false) succeeds, the result
\* has exactly the key paths of A and of B, every key only A has keeps A's
\* value, every key only B has carries B's value, and a section both have
\* is a section of the result.
C1_DisjointMergeIsUnion ==
    (mpc = "done" /\ ~mOverwrite /\ SharedLeafPaths(mA, mB) = {}) =>
        /\ mResult.ok
        /\ PathsOf(mResult.a) = PathsOf(mA) \cup PathsOf(mB)
        /\ \A p \in PathsOf(mA) \ PathsOf(mB) : At(mResult.a, p) = At(mA, p)
        /\ \A p \in PathsOf(mB) \ PathsOf(mA) : At(mResult.a, p) = At(mB, p)
        /\ \A p \in PathsOf(mA) \cap PathsOf(mB) : IsDict(At(mResult.a, p))

C1_Witness ==
    /\ mpc = "done" /\ ~mOverwrite /\ mResult.ok
    /\ SharedLeafPaths(mA, mB) = {}
    /\ PathsOf(mA) \cap PathsOf(mB) # {}
    /\ \E p \in PathsOf(mA) \ PathsOf(mB) : Len(p) = 2
    /\ \E p \in PathsOf(mB) \ PathsOf(mA) : Len(p) = 2

\* C2: when A and B share a key whose values differ and are not both
\* nested mappings, merge(A, B, overwrite=false) fails, and its message is
\* "Conflict at " followed by the dotted path (section names joined with
\* '.', then the key) of such a key.
C2_ConflictNamesPath ==
    (mpc = "done" /\ ~mOverwrite /\ ConflictPaths(mA, mB) # {}) =>
        /\ ~mResult.ok
        /\ \E p \in ConflictPaths(mA, mB) : mResult.msg = "Conflict at " \o Dotted(p)

C2_Witness ==
    /\ mpc = "done" /\ ~mOverwrite /\ ~mResult.ok
    /\ mResult.msg = "Conflict at a.b"
    /\ ConflictPaths(mA, mB) = {<<"a", "b">>}

\* C3: merge(A, B, overwrite=true) always succeeds; every top-level key of
\* B holds B's whole value, every top-level key only A has keeps A's value,
\* and the result has no other top-level key.
C3_OverwriteIsShallow ==
    (mpc = "done" /\ mOverwrite) =>
        /\ mResult.ok
        /\ KeysOf(mResult.a) = KeysOf(mA) \cup KeysOf(mB)
        /\ \A k \in KeysOf(mB) : Get(mResult.a, k) = Get(mB, k)
        /\ \A k \in KeysOf(mA) \ KeysOf(mB) : Get(mResult.a, k) = Get(mA, k)

C3_Witness ==
    /\ mpc = "done" /\ mOverwrite /\ mResult.ok
    /\ ConflictPaths(mA, mB) # {}
    /\ \E k \in KeysOf(mA) \cap KeysOf(mB) :
          /\ IsDict(Get(mA, k)) /\ IsDict(Get(mB, k))
          /\ KeysOf(Get(mA, k)) \ KeysOf(Get(mB, k)) # {}
          /\ Get(mResult.a, k) = Get(mB, k)
    /\ KeysOf(mA) \ KeysOf(mB) # {}

InitMerge ==
    /\ mA \in TreesA
    /\ mB \in TreesB
    /\ mOverwrite \in BOOLEAN
    /\ mResult = NoResult
    /\ mpc = "start"
    /\ rt = NoRoundTrip
    /\ fs = InitialWorld(TRUE).fs
    /\ flow = InitialWorld(TRUE).flow
    /\ pre = InitialWorld(TRUE)
    /\ DEFAULT_SETTINGS = DefaultSettingsLiteral
    /\ parserCalls = <<>>
    /\ cloneCalls = <<>>
    /\ procCalls = <<>>
    /\ errorLog = <<>>
    /\ op = NoOp
    /\ nops = 0

SpecMerge == InitMerge /\ [][NextMerge]_vars

(***************************************************************************)
(* Vocabulary of the workspace claims.                                     *)
(***************************************************************************)
IsCfg(file) == lower(file.suffix) \in {".yml", ".yaml"}

IsCdsl(file) == lower(file.suffix) = ".core_desc"

\* the inputs list of a settings tree, and the one in the settings file
InputsOf(data) == Get(data, "inputs").val

PersistedInputs(f) == InputsOf(from_yaml(f.settings_file))

NamesIn(seq) == {seq[i] : i \in 1..Len(seq)}

\* C4: initialize with force=false, non-interactive, on a workspace whose
\* metadata directory exists aborts with exit status 1 and leaves the
\* metadata directory, its subdirectories, their files and the settings
\* file as they were.
C4_RefusedInitializeChangesNothing ==
    (op.name = "initialize" /\ pre.fs.meta /\ ~op.force /\ ~op.interactive) =>
        /\ op.exc = "SystemExit(1)"
        /\ fs = pre.fs

C4_Witness ==
    /\ op.name = "initialize" /\ pre.fs.meta /\ ~op.force /\ ~op.interactive
    /\ op.exc = "SystemExit(1)"
    /\ fs.settings_file # PyNone
    /\ fs.inputs # {}
    /\ fs.subdirs = Layout

\* C5: initialize(clone=true, cloneUrl=u, cloneRef=r) on a workspace root
\* that does not exist invokes the clone adapter once, for (u, r); it
\* succeeds only if the adapter reported success, and when the adapter
\* fails it aborts and no metadata directory exists afterward.
C5_CloneDecidesInitialize ==
    (op.name = "initialize" /\ op.clone /\ ~pre.fs.root) =>
        /\ cloneCalls = Append(pre.cloneCalls, [url |-> op.clone_url, ref |-> op.clone_ref])
        /\ op.exc = "none" => op.cloneOutcome = "ok"
        /\ op.cloneOutcome # "ok" => (op.exc # "none" /\ ~fs.meta)

C5_Witness ==
    /\ op.name = "initialize" /\ op.clone /\ ~pre.fs.root
    /\ op.clone_url = "u" /\ op.clone_ref = "r"
    /\ op.cloneOutcome = "checkout_failed"
    /\ op.exc = "GitCommandError"
    /\ fs.root /\ ~fs.meta

\* C6: initialize with clone=false, non-interactive, on a workspace root
\* that does not exist aborts with exit status 1, does not invoke the clone
\* adapter and creates neither the root nor the metadata directory.
C6_MissingRootIsNotCreated ==
    (op.name = "initialize" /\ ~pre.fs.root /\ ~op.clone /\ ~op.interactive) =>
        /\ op.exc = "SystemExit(1)"
        /\ cloneCalls = pre.cloneCalls
        /\ ~fs.root /\ ~fs.meta
        /\ fs = pre.fs

C6_Witness ==
    /\ op.name = "initialize" /\ ~pre.fs.root /\ ~op.clone /\ ~op.interactive
    /\ op.exc = "SystemExit(1)"
    /\ ~fs.root

\* C7: after every successful initialize the metadata directory and the
\* eight layout subdirectories exist and the settings file holds the
\* hard-coded default tree.
C7_InitializePersistsDefaults ==
    (op.name = "initialize" /\ op.exc = "none") =>
        /\ fs.meta
        /\ fs.subdirs = Layout
        /\ fs.settings_file = to_yaml(DefaultSettingsLiteral)

\* C8: whenever a settings file exists, the names in its inputs list are
\* exactly the files in the inputs directory.
C8_InputsListMatchesDirectory ==
    fs.settings_file # PyNone => NamesIn(PersistedInputs(fs)) = fs.inputs

\* C9 as claimed: a successful load of a model source copies it into the
\* inputs directory, appends its name to the persisted inputs list and
\* invokes the parser once, on the copy in the inputs directory, with the
\* models directory as output.
C9_ParserReadsTheCopy ==
    (op.name = "load" /\ Len(op.files) = 1 /\ IsCdsl(op.files[1]) /\ op.exc = "none") =>
        /\ op.files[1].name \in fs.inputs
        /\ PersistedInputs(fs) = Append(PersistedInputs(pre.fs), op.files[1].name)
        /\ parserCalls = Append(pre.parserCalls,
                                [file |-> InputsPath(op.files[1]), out_dir |-> "models_dir"])

\* C9 as amended: a successful load of a model source copies it into the
\* inputs directory, appends its name to the inputs list and persists that
\* list, and invokes the parser once, on the file at the path given to
\* load, with the models directory as output.
C9_ParserReadsTheGivenFile ==
    (op.name = "load" /\ Len(op.files) = 1 /\ IsCdsl(op.files[1]) /\ op.exc = "none") =>
        /\ op.files[1].name \in fs.inputs
        /\ PersistedInputs(fs) = Append(InputsOf(settings_data(pre)), op.files[1].name)
        /\ parserCalls = Append(pre.parserCalls,
                                [file |-> SourcePath(op.files[1]), out_dir |-> "models_dir"])

C9_Witness ==
    /\ op.name = "load" /\ op.files = <<CdslA>> /\ op.exc = "none"
    /\ pre.fs.inputs = {}
    /\ fs.inputs = {CdslA.name}
    /\ Len(parserCalls) = 1

\* C10: a load of configuration fragments, whether it succeeds or fails and
\* whatever overwrite is, leaves the inputs directory and the models
\* directory as they were and does not invoke the parser; when it succeeds
\* every leaf of every fragment is in the settings, in memory and on disk.
C10_FragmentLoadLeavesInputsAlone ==
    (op.name = "load" /\ \A i \in 1..Len(op.files) : IsCfg(op.files[i])) =>
        /\ fs.inputs = pre.fs.inputs
        /\ fs.models = pre.fs.models
        /\ fs.subdirs = pre.fs.subdirs
        /\ parserCalls = pre.parserCalls
        /\ (op.exc = "none" /\ Len(op.files) = 1) =>
              LET fragment == from_yaml(op.files[1].yaml)
                  persisted == from_yaml(fs.settings_file)
              IN \A p \in PathsOf(fragment) :
                    ~IsDict(At(fragment, p)) =>
                       /\ p \in PathsOf(settings_data(World))
                       /\ PyEq(At(settings_data(World), p), At(fragment, p))
                       /\ p \in PathsOf(persisted)
                       /\ PyEq(At(persisted, p), At(fragment, p))

C10_Witness ==
    /\ op.name = "load" /\ op.files = <<CfgGroups>> /\ op.exc = "none"
    /\ fs.inputs # {}
    /\ fs.models # {}
    /\ <<"groups", "riscv">> \in PathsOf(fs.settings_file)
    /\ <<"groups", "riscv">> \notin PathsOf(pre.fs.settings_file)

(***************************************************************************)
(* Vocabulary of the stage claims.                                         *)
(***************************************************************************)
ConfigsOf(data) == Get(Get(data, "llvm"), "configs")

\* the ids of the lines that report a failed test, in output order
RECURSIVE FailedIn(_)
FailedIn(out) ==
    IF Len(out) = 0 THEN <<>>
    ELSE (IF out[1].status = "FAIL" THEN <<out[1].id>> ELSE <<>>) \o FailedIn(Tail(out))

RECURSIVE FailedOver(_)
FailedOver(outs) ==
    IF Len(outs) = 0 THEN <<>> ELSE FailedIn(outs[1]) \o FailedOver(Tail(outs))

\* C11: build with a name absent from llvm.configs fails with the
\* invalid-config error, starts no external process (neither configure nor
\* compile) and creates no build directory.
C11_UnknownConfigBuildsNothing ==
    (op.name = "build" /\ pre.flow.settings # "None"
        /\ ~HasKey(ConfigsOf(settings_data(pre)), op.config)) =>
        /\ op.exc = "AssertionError: Invalid llvm config: " \o op.config
        /\ procCalls = pre.procCalls
        /\ fs = pre.fs

C11_Witness ==
    /\ op.name = "build" /\ op.config = "nonexistent"
    /\ op.exc = "AssertionError: Invalid llvm config: nonexistent"
    /\ "build" \in fs.subdirs
    /\ fs.build = {"release"}
    /\ Len(procCalls) = 2

\* C12: a test run with ignore_error=false whose runner output holds a
\* failed-test line fails and reports exactly the failed tests' ids, in
\* output order, suite paths in configured order; with ignore_error=true,
\* or with no failed-test line, it returns success.
C12_TestReportsFailedTests ==
    (op.name = "test" /\ Len(procCalls) = Len(pre.procCalls) + Len(op.outs)) =>
        LET ids == FailedOver(op.outs)
        IN /\ (~op.ignore_error /\ ids # <<>>) =>
                 /\ op.exc # "none"
                 /\ errorLog = Append(pre.errorLog, [count |-> Len(ids), tests |-> ids])
           /\ (op.ignore_error \/ ids = <<>>) => op.exc = "none"

\* C13: clean invoked twice in a row is idempotent: the second invocation
\* reports no failure and leaves the workspace directories and the settings
\* as the first left them.
C13_SecondCleanSucceeds ==
    (op.name = "clean" /\ op.after = "clean") =>
        /\ op.exc = "none"
        /\ fs = pre.fs
        /\ settings_data(World) = settings_data(pre)

InitYaml ==
    /\ \E tree \in YamlTrees : rt = [NoRoundTrip EXCEPT !.pc = "start", !.tree = tree]
    /\ fs = InitialWorld(TRUE).fs
    /\ flow = InitialWorld(TRUE).flow
    /\ pre = InitialWorld(TRUE)
    /\ DEFAULT_SETTINGS = DefaultSettingsLiteral
    /\ parserCalls = <<>>
    /\ cloneCalls = <<>>
    /\ procCalls = <<>>
    /\ errorLog = <<>>
    /\ op = NoOp
    /\ nops = 0
    /\ mA = PyDict(<<>>) /\ mB = PyDict(<<>>) /\ mOverwrite = FALSE
    /\ mResult = NoResult
    /\ mpc = "start"

SpecYaml == InitYaml /\ [][NextYaml]_vars

\* C14: a settings tree (nested mappings whose leaves are booleans,
\* integers, strings or lists of strings) saved to a file and loaded back
\* is equal, by Python's ==, to the tree that was saved.
C14_SaveThenLoadIsEqual ==
    rt.pc = "loaded" => PyEq(rt.loaded, rt.tree)

C14_Witness ==
    /\ rt.pc = "loaded"
    /\ rt.tree = PyDict(<< <<"b", PyStr("true")>>,
                           <<"a", PyDict(<< <<"b", PyStr("1")>>,
                                            <<"a", PyList(<<"x", "no">>)>> >>)>> >>)
    /\ rt.file # rt.tree
    /\ rt.loaded # rt.tree
    /\ Get(rt.loaded, "b") = PyStr("true")

\* C15: when initialize or a load of a configuration fragment or of a
\* model source returns successfully, the tree in the settings file equals
\* the manager's in-memory tree, and a manager constructed on the root
\* starts with the tree that is in the settings file.
C15_PersistedEqualsInMemory ==
    /\ (op.name \in {"initialize", "load"} /\ op.exc = "none") =>
          /\ fs.settings_file # PyNone
          /\ PyEq(from_yaml(fs.settings_file), settings_data(World))
          /\ PyEq(settings_data(Seal5Flow_init(World)), settings_data(World))
    /\ (op.name \in {"__init__", "import"} /\ pre.fs.settings_file # PyNone) =>
          /\ flow.settings = "loaded"
          /\ PyEq(settings_data(World), from_yaml(pre.fs.settings_file))

C15_Witness ==
    /\ op.name = "__init__" /\ op.after = "load"
    /\ pre.flow.settings = "DEFAULT_SETTINGS"
    /\ flow.settings = "loaded"
    /\ InputsOf(settings_data(World)) = <<CdslA.name>>
    /\ settings_data(World) # settings_data(pre)

\* what a load of one configuration fragment raises on a merge conflict
IsConflict(exc) == exc \notin {"none", "AttributeError"}

\* the number of times name is in the list
Count(seq, name) == Cardinality({i \in 1..Len(seq) : seq[i] = name})

\* C16: a load of a configuration fragment that fails with a merge conflict
\* contributes nothing: the settings file is as it was before the call and
\* the in-memory tree equals its value before the call (so that nothing of
\* the rejected fragment can reach a settings file written later).
C16_RejectedFragmentLeavesNoTrace ==
    (op.name = "load" /\ Len(op.files) = 1 /\ IsCfg(op.files[1]) /\ IsConflict(op.exc)) =>
        /\ fs.settings_file = pre.fs.settings_file
        /\ PyEq(settings_data(World), settings_data(pre))

\* C17: when a load of a model source has copied the file into the inputs
\* directory and the parser then fails, the file's name is in the inputs
\* list of the settings file, and that list matches the inputs directory.
C17_ParserFailureStillPersists ==
    (op.name = "load" /\ Len(op.files) = 1 /\ IsCdsl(op.files[1])
        /\ op.exc = "ExternalToolError") =>
        /\ op.files[1].name \in fs.inputs
        /\ op.files[1].name \in NamesIn(PersistedInputs(fs))
        /\ NamesIn(PersistedInputs(fs)) = fs.inputs

\* C18: a load, with overwrite=false, of a model source whose name is a
\* file of the inputs directory fails and changes neither the inputs
\* directory nor the in-memory or the persisted inputs list nor invokes the
\* parser; and in no reachable state does the inputs list, in memory or in
\* the settings file, hold a name more than once.
C18_NoInputIsListedTwice ==
    /\ (op.name = "load" /\ Len(op.files) = 1 /\ IsCdsl(op.files[1])
           /\ ~op.overwrite /\ op.files[1].name \in pre.fs.inputs) =>
          /\ op.exc = "RuntimeError: File " \o op.files[1].name \o " already loaded!"
          /\ fs = pre.fs
          /\ settings_data(World) = settings_data(pre)
          /\ parserCalls = pre.parserCalls
    /\ \A file \in CdslFiles :
          /\ flow.settings # "None" => Count(InputsOf(settings_data(World)), file.name) <= 1
          /\ fs.settings_file # PyNone => Count(PersistedInputs(fs), file.name) <= 1

\* C20: the state of a constructed manager is never UNKNOWN: it is
\* UNINITIALIZED when the root has no metadata directory, INITIALIZED when
\* the metadata directory and the settings file are there, and INITIALIZED
\* after a successful initialize.
C20_StateIsResolved ==
    flow.constructed =>
        /\ flow.state # "UNKNOWN"
        /\ (op.name \in {"none", "__init__", "import"} /\ ~fs.meta) =>
              flow.state = "UNINITIALIZED"
        /\ (op.name \in {"none", "__init__", "import"} /\ fs.meta
               /\ fs.settings_file # PyNone) => flow.state = "INITIALIZED"
        /\ (op.name = "initialize" /\ op.exc = "none") => flow.state = "INITIALIZED"

Unsupported(file) == ~IsCfg(file) /\ ~IsCdsl(file)

\* the position of the first file with an unsupported extension
FirstUnsupported(files) ==
    CHOOSE k \in 1..Len(files) :
        Unsupported(files[k]) /\ \A j \in 1..(k - 1) : ~Unsupported(files[j])

\* a fragment between positions i and k carries an inputs list of its own
ReplacesInputs(files, i, k) ==
    \E j \in (i + 1)..(k - 1) :
        IsCfg(files[j]) /\ HasKey(from_yaml(files[j].yaml), "inputs")

\* C19: load(files) takes the files in list order and aborts at the first
\* file with an unsupported extension: when the files before it load, the
\* call raises the unsupported-type error, every file before it is loaded
\* and persisted as a load of those files alone leaves it, and no file at
\* or after it has touched the settings, the inputs directory or the
\* parser; when a file before it fails, the call ends with that failure.
C19_BatchAbortsAtFirstUnsupported ==
    (op.name = "load" /\ \E k \in 1..Len(op.files) : Unsupported(op.files[k])) =>
        LET k == FirstUnsupported(op.files)
            before == SubSeq(op.files, 1, k - 1)
            alone == load(pre, before, op.overwrite, op.parserOk)
        IN /\ alone.exc # "none" => op.exc = alone.exc
           /\ alone.exc = "none" =>
                 /\ op.exc = "RuntimeError: Unsupported input type: " \o op.files[k].suffix
                 /\ World = alone.w
                 /\ Len(parserCalls) - Len(pre.parserCalls)
                       = Cardinality({i \in 1..(k - 1) : IsCdsl(op.files[i])})
                 /\ \A i \in 1..(k - 1) :
                       (IsCdsl(op.files[i]) /\ ~ReplacesInputs(op.files, i, k)) =>
                          /\ op.files[i].name \in fs.inputs
                          /\ op.files[i].name \in NamesIn(PersistedInputs(fs))
                 /\ k > 1 => PyEq(from_yaml(fs.settings_file), settings_data(World))
                 /\ fs.inputs = pre.fs.inputs \cup {op.files[i].name : i \in
                                   {j \in 1..(k - 1) : IsCdsl(op.files[j])}}

C19_Witness ==
    /\ op.name = "load" /\ op.files = <<CdslA, Notes, CdslB>>
    /\ op.exc = "RuntimeError: Unsupported input type: .txt"
    /\ pre.fs.inputs = {}
    /\ fs.inputs = {CdslA.name}
    /\ PersistedInputs(fs) = <<CdslA.name>>
    /\ Len(parserCalls) = 1

\* C21: build with a name that is in llvm.configs hands the configure step
\* exactly one flag -D<KEY>=<value> for each option of that config (a bool
\* as ON or OFF, a list joined with ';'), in the mapping's order, and
\* starts the compile step only after the configure step.
C21_ConfigureGetsTheOptions ==
    (op.name = "build" /\ pre.flow.settings # "None"
        /\ HasKey(ConfigsOf(settings_data(pre)), op.config)
        /\ "build" \in pre.fs.subdirs) =>
        LET options == Get(Get(ConfigsOf(settings_data(pre)), op.config), "options")
            n == Len(pre.procCalls)
        IN /\ Len(procCalls) > n
           /\ procCalls[n + 1] = Proc("cmake", get_cmake_args(options), op.config)
           /\ Len(get_cmake_args(options)) = Len(options.val)
           /\ \A i \in (n + 1)..Len(procCalls) :
                 procCalls[i].tool = "make" => i = n + 2
           /\ op.exc = "none" => Len(procCalls) = n + 2 /\ procCalls[n + 2].tool = "make"

InitSave ==
    /\ \E old \in SaveTrees, new \in SaveTrees :
          rt = [pc |-> "saving", tree |-> new, file |-> to_yaml(old), loaded |-> old]
    /\ fs = InitialWorld(TRUE).fs
    /\ flow = InitialWorld(TRUE).flow
    /\ pre = InitialWorld(TRUE)
    /\ DEFAULT_SETTINGS = DefaultSettingsLiteral
    /\ parserCalls = <<>>
    /\ cloneCalls = <<>>
    /\ procCalls = <<>>
    /\ errorLog = <<>>
    /\ op = NoOp
    /\ nops = 0
    /\ mA = PyDict(<<>>) /\ mB = PyDict(<<>>) /\ mOverwrite = FALSE
    /\ mResult = NoResult
    /\ mpc = "start"

SpecSave == InitSave /\ [][NextSave]_vars

\* C22: persisting the settings is atomic with respect to a crash: when the
\* process stops at any point of the save, the settings file holds the
\* whole previous version or the whole new version, never an empty or a
\* partly written document.
C22_CrashLeavesAWholeVersion ==
    rt.pc = "crashed" => rt.file \in {to_yaml(rt.loaded), to_yaml(rt.tree)}

\* C23: load, build or test on a manager whose workspace is not
\* initialized (no metadata directory, no settings loaded) fails with the
\* workspace-state error before doing any work: it starts no external
\* process and changes no file or directory.
C23_UninitializedStageIsRefused ==
    (op.name \in {"load", "build", "test"} /\ pre.flow.settings = "None" /\ ~pre.fs.meta) =>
        /\ op.exc = "WorkspaceStateError"
        /\ fs = pre.fs
        /\ procCalls = pre.procCalls
        /\ parserCalls = pre.parserCalls
        /\ cloneCalls = pre.cloneCalls

====
